---- MODULE Spec2Model ----
(***************************************************************************)
(* A model of the ISO Toolkit Telegram bot.                                *)
(*                                                                         *)
(*   src/bot_with_iso.py  the bot with the access gate, the keep-alive     *)
(*                        commands, the permission commands, the folder    *)
(*                        labels and the upload/fetch relay                *)
(*   src/bot.py           the keep-alive-only bot (definitions bot_...)    *)
(*                                                                         *)
(* An update is handled by one handler; `run` is the record of the handler *)
(* invocation that has just finished: who sent which command, the external *)
(* calls the handler made, in order (`trace`), and the last text it showed.*)
(***************************************************************************)
EXTENDS Integers, Sequences, FiniteSets, Bags, TLC

(* ------------------------------ bounds -------------------------------- *)

\* Operators other than the owner: the identities 1..NumOthers.
NumOthers == 2
\* The auto-ping job runs at most MaxPings times.
MaxPings == 2
\* The target answers at most MaxScript successive GETs of one handler.
MaxScript == 2

(* ----------------------------- constants ------------------------------ *)

OWNER_ID == 1851080851

Others == 1..NumOthers
Users == {OWNER_ID} \cup Others

\* A character of a command argument: the digits 0..9, and one character
\* that is no digit.
NotDigit == 10

VARIABLES
    program,         \* which of the two programs was started
    config,          \* the environment: which API keys are set
    allowed_users,   \* bot_data['allowed_users']: a set of user ids
    stats,           \* bot_data['stats']: total, success, failed
    CURRENT_FOLDER,  \* per user, the folder names in insertion order
    run,             \* the handler invocation that has just finished
    tasks,           \* the coroutines suspended at an await (a bag)
    jobs_done,       \* the number of auto-ping jobs that have completed
    committed        \* the owner's grants and revocations, applied in the
                     \* order in which they were committed

\* Set when the program starts, never changed.
fixed == <<program, config>>
\* The event loop of the interleaved specification.
sched == <<tasks, jobs_done, committed>>

vars == <<program, config, allowed_users, stats, CURRENT_FOLDER, run,
          tasks, jobs_done, committed>>

(* ------------------------ arguments and int() ------------------------- *)

RECURSIVE Digits(_)
\* str(n) for n >= 0, as a sequence of digits.
Digits(n) ==
    IF n < 10 THEN <<n>> ELSE Append(Digits(n \div 10), n % 10)

RECURSIVE DecimalValue(_)
DecimalValue(tok) ==
    IF tok = <<>> THEN 0
    ELSE 10 * DecimalValue(SubSeq(tok, 1, Len(tok) - 1)) + tok[Len(tok)]

\* int(context.args[0]): the value of a string of digits (leading zeros
\* allowed), ValueError for the empty string or a string with a non-digit.
int(tok) ==
    IF tok # <<>> /\ \A i \in 1..Len(tok) : tok[i] \in 0..9
    THEN [ok |-> TRUE, value |-> DecimalValue(tok)]
    ELSE [ok |-> FALSE, value |-> 0]

\* The argument strings an operator types after /allow or /deny.
Tokens ==
    {Digits(u) : u \in Users} \cup {<<0>> \o Digits(u) : u \in Users}
        \cup {<<NotDigit>>}

\* context.args of a permission command: no argument, or one string.
PermArgs == {<<>>} \cup {<<t>> : t \in Tokens}

(* ------------------------------ the target ---------------------------- *)

\* What the target does with one GET.
\*   timeout       asyncio.TimeoutError: no answer within 30 s
\*   client_error  aiohttp.ClientError: DNS, refusal, TLS
\*   exception     any other exception of the call
\*   response      an HTTP response with the status `status`
PingOutcomes ==
    {[kind |-> "timeout", status |-> 0], [kind |-> "client_error", status |-> 0],
     [kind |-> "response", status |-> 200], [kind |-> "response", status |-> 503]}

RECURSIVE SeqsOfLen(_, _)
SeqsOfLen(S, n) ==
    IF n = 0 THEN {<<>>}
    ELSE {Append(s, x) : s \in SeqsOfLen(S, n - 1), x \in S}

\* The target's answers to the next MaxScript GETs.
Scripts == SeqsOfLen(PingOutcomes, MaxScript)

\* Mutant: only a status below 400 counts as online.
ping_site_status_checked(endpoint) ==
    LET o == Head(endpoint) IN
    [success |-> o.kind = "response" /\ o.status < 400,
     message |-> IF o.kind = "response" THEN "Site is online"
                 ELSE IF o.kind = "timeout" THEN "Request timed out"
                 ELSE "str(e)",
     status_code |-> IF o.kind = "response" THEN o.status ELSE 0,
     endpoint |-> Tail(endpoint)]

\* ping_site of bot_with_iso.py: one GET, answered by the head of
\* `endpoint`; no retry.  `endpoint` of the result is what is left.
ping_site(endpoint) ==
    LET o == Head(endpoint) IN
    [success |-> o.kind = "response",
     message |-> IF o.kind = "response" THEN "Site is online"
                 ELSE IF o.kind = "timeout" THEN "Request timed out"
                 ELSE "str(e)",
     status_code |-> IF o.kind = "response" THEN o.status ELSE 0,
     endpoint |-> Tail(endpoint)]

(* ------------------------------ the gate ------------------------------ *)

\* ADMIN_CHAT_IDS is not set: the deprecated admin list is empty.
ADMIN_IDS == {}

\* is_admin (deprecated): no restriction when no admin ids are set.
is_admin(user_id) ==
    IF ADMIN_IDS = {} THEN TRUE ELSE user_id \in ADMIN_IDS

\* Mutant: the gate answers with the deprecated admin-list check.
is_authorized_by_admin_list(user_id) == is_admin(user_id)

\* is_authorized: the owner, or a member of bot_data['allowed_users'].
is_authorized(user_id) ==
    IF user_id = OWNER_ID THEN TRUE
    ELSE IF user_id \in allowed_users THEN TRUE
    ELSE FALSE

(* --------------------------- handler records -------------------------- *)

(* A file size in bytes is gib * 1024**3 + rem with 0 <= rem < 1024**3.    *)
GiB == 1073741824
Size(gib, rem) == [gib |-> gib, rem |-> rem]
\* Mutant: the threshold itself already exceeds.
Exceeds_from_threshold(size, n) == size.gib >= n

\* size > n * 1024**3
Exceeds(size, n) == size.gib > n \/ (size.gib = n /\ size.rem > 0)

NoUrl == [base |-> "", id |-> ""]
NoError == [cause |-> "", status |-> 0, body |-> ""]
\* The dict upload_to_pixeldrain returns (or upload_command builds for
\* Telegram hosting), and the requests that were made for it.
NoUpload ==
    [success |-> FALSE, file_id |-> "", download_url |-> NoUrl,
     view_url |-> NoUrl, error |-> NoError, calls |-> <<>>]
\* The dict auto_match_iso_with_server returns, and the requests made.
NoMatch ==
    [success |-> FALSE, iso_id |-> "", error |-> NoError, calls |-> <<>>]

\*   size      the size of the file, as the handler knows it
\*   platform  the destination that was chosen
\*   scratch   the temporary file: "none", "exists" or "removed"
\*   upload    the result of the transfer
\*   match     the result of the catalog call
NoRelay ==
    [size |-> Size(0, 0), platform |-> "", scratch |-> "none",
     upload |-> NoUpload, match |-> NoMatch]

\* What the outside gives /upload and /fetch (see upload_run, fetch_run);
\* here nothing.
NoEnv ==
    [reply |-> "", size |-> Size(0, 0), tg |-> "", head |-> "", get |-> "",
     pd |-> [kind |-> "", status |-> 0, json |-> FALSE],
     match |-> [kind |-> "", status |-> 0, matched |-> FALSE, iso_id |-> ""]]

\* The numbers in the text of stats_command: the three counters and the
\* success rate in tenths of a percent ("66.7" is 667); here none.
NoReport == [total |-> 0, success |-> 0, failed |-> 0, rate |-> 0]

\* No ping was made.
NoResult == [success |-> FALSE, message |-> "", status_code |-> 0]

\*   cmd, user, args   the command, who sent it, context.args
\*   handler           the function that handled it
\*   trace             the handler's external calls, in order
\*   text              the last text the handler showed
\*   endpoint          the target's answers to the handler's GETs
\*   result            what the handler's last ping_site call returned
\*   total             the number the text reports
\*   folder            the folder name the text reports (0: none)
\*   relay             what upload_command or fetch_command did
\*   env               what upload_command or fetch_command was given
\*   report            the numbers stats_command shows
\*   fault             the call of the trace that raised (0: none did)
\*   raised            an exception left the handler
NoRun ==
    [cmd |-> "", handler |-> "", user |-> 0, args |-> <<>>, trace |-> <<>>,
     text |-> "", endpoint |-> <<>>, result |-> NoResult, total |-> 0,
     folder |-> 0, relay |-> NoRelay, env |-> NoEnv, report |-> NoReport,
     fault |-> 0, raised |-> FALSE]

Ran(cmd, handler, user, args, trace, text) ==
    [NoRun EXCEPT !.cmd = cmd, !.handler = handler, !.user = user,
                  !.args = args, !.trace = trace, !.text = text]

\* The events of a trace.
Range(trace) == {trace[i] : i \in 1..Len(trace)}

\* The number of events e in a trace.
Count(trace, e) == Cardinality({i \in 1..Len(trace) : trace[i] = e})

\* main(): the commands registered for each handler.
CommandsOf(handler) ==
    CASE handler = "start_command" -> {"start", "help"}
      [] handler = "check_command" -> {"check", "wake", "status", "stats"}
      [] handler = "allow_command" -> {"allow"}
      [] handler = "deny_command" -> {"deny"}
      [] handler = "users_command" -> {"users"}
      [] handler = "upload_command" -> {"upload"}
      [] handler = "fetch_command" -> {"fetch"}
      [] handler = "info_command" -> {"info"}
      [] handler = "list_command" -> {"list"}
      [] handler = "folder_create_command" -> {"folder_create"}
      [] handler = "folder_list_command" -> {"folder_list"}
      [] handler = "folder_set_command" -> {"folder_set"}

(* ------------------------------ Init ---------------------------------- *)

\* API_KEY and PIXELDRAIN_API_KEY: set (TRUE) or empty (FALSE).
Configs == [API_KEY : BOOLEAN, PIXELDRAIN_API_KEY : BOOLEAN]

\* main(): the stats are zero and nobody is allowed.  No folder exists and
\* no coroutine is suspended.
Started ==
    /\ allowed_users = {}
    /\ stats = [total |-> 0, success |-> 0, failed |-> 0]
    /\ CURRENT_FOLDER = [u \in Users |-> <<>>]
    /\ tasks = EmptyBag
    /\ jobs_done = 0
    /\ committed = {}

Init ==
    /\ program \in {"bot", "bot_with_iso"}
    /\ config \in Configs
    /\ Started
    /\ run = NoRun

(* ------------------------ keep-alive commands ------------------------- *)

\* What start_command does.
start_run(cmd, u) ==
    IF ~is_authorized(u)
    THEN Ran(cmd, "start_command", u, <<>>, <<>>, "")
    ELSE Ran(cmd, "start_command", u, <<>>, <<"reply">>, "welcome")

start_command(cmd, u) ==
    /\ program = "bot_with_iso"
    /\ run = NoRun
    /\ run' = start_run(cmd, u)
    /\ UNCHANGED <<fixed, CURRENT_FOLDER, sched, allowed_users, stats>>

\* Mutant: the command records its ping in the stats, as the job does.
check_command_recording(cmd, u, endpoint) ==
    /\ program = "bot_with_iso"
    /\ run = NoRun
    /\ run' = IF ~is_authorized(u)
              THEN Ran(cmd, "check_command", u, <<>>, <<>>, "")
              ELSE [Ran(cmd, "check_command", u, <<>>,
                        <<"reply", "ping", "edit">>,
                        IF Head(endpoint).kind = "response"
                        THEN "online" ELSE "error")
                    EXCEPT !.endpoint = endpoint]
    /\ stats' = IF is_authorized(u) /\ stats.total < MaxPings
                THEN [stats EXCEPT !.total = @ + 1]
                ELSE stats
    /\ UNCHANGED <<fixed, CURRENT_FOLDER, sched, allowed_users>>

\* What check_command does.
check_run(cmd, u, endpoint) ==
    IF ~is_authorized(u)
    THEN Ran(cmd, "check_command", u, <<>>, <<>>, "")
    ELSE LET r == ping_site(endpoint) IN
         [Ran(cmd, "check_command", u, <<>>,
              <<"reply", "ping", "edit">>,
              IF r.success THEN "online" ELSE "error")
          EXCEPT !.endpoint = endpoint]

check_command(cmd, u, endpoint) ==
    /\ program = "bot_with_iso"
    /\ run = NoRun
    /\ run' = check_run(cmd, u, endpoint)
    /\ UNCHANGED <<fixed, CURRENT_FOLDER, sched, allowed_users, stats>>

\* Mutant: the total is counted only for a successful ping.
record_total_on_success(s, success) ==
    [total |-> IF success THEN s.total + 1 ELSE s.total,
     success |-> IF success THEN s.success + 1 ELSE s.success,
     failed |-> IF success THEN s.failed ELSE s.failed + 1]

\* The stats update of auto_ping_job.
record(s, success) ==
    [total |-> s.total + 1,
     success |-> IF success THEN s.success + 1 ELSE s.success,
     failed |-> IF success THEN s.failed ELSE s.failed + 1]

auto_ping_job(endpoint) ==
    /\ program = "bot_with_iso"
    /\ run = NoRun
    /\ stats.total < MaxPings
    /\ LET r == ping_site(endpoint) IN
       /\ stats' = record(stats, r.success)
       /\ run' = [Ran("", "auto_ping_job", 0, <<>>, <<"ping">>, "")
                  EXCEPT !.endpoint = endpoint]
    /\ UNCHANGED <<fixed, CURRENT_FOLDER, sched, allowed_users>>

(* ------------------------ permission commands ------------------------- *)

\* Mutant: the permission commands are open to every authorized operator.
allow_refusal_for_unauthorized(u, args) ==
    IF ~is_authorized(u) THEN "owner_only"
    ELSE IF args = <<>> THEN "usage"
    ELSE IF ~int(args[1]).ok THEN "invalid_id"
    ELSE IF int(args[1]).value \in allowed_users THEN "already_authorized"
    ELSE ""

\* allow_command up to the membership test: the text of the refusal, or ""
\* when the command goes on to grant.
allow_refusal(u, args) ==
    IF u # OWNER_ID THEN "owner_only"
    ELSE IF args = <<>> THEN "usage"
    ELSE IF ~int(args[1]).ok THEN "invalid_id"
    ELSE IF int(args[1]).value \in allowed_users THEN "already_authorized"
    ELSE ""

\* allowed_users.add(target_user_id); bot_data['allowed_users'] = allowed_users
grant(allowed, target) == allowed \cup {target}

\* bot_data['allowed_users'] when allow_command replies.
allow_result(u, args) ==
    IF allow_refusal(u, args) # "" THEN allowed_users
    ELSE grant(allowed_users, int(args[1]).value)

\* What allow_command does: one reply, after the set was written.
allow_run(u, args) ==
    LET R(text) == Ran("allow", "allow_command", u, args, <<"reply">>, text)
        refusal == allow_refusal(u, args)
    IN  IF refusal # "" THEN R(refusal)
        ELSE [R("granted") EXCEPT
                 !.total = Cardinality(allow_result(u, args)) + 1]

allow_command(u, args) ==
    /\ program = "bot_with_iso"
    /\ run = NoRun
    /\ allowed_users' = allow_result(u, args)
    /\ run' = allow_run(u, args)
    /\ UNCHANGED <<fixed, CURRENT_FOLDER, sched, stats>>

\* Mutant: the check that the target is the owner is missing.
deny_refusal_without_owner_check(u, args) ==
    IF u # OWNER_ID THEN "owner_only"
    ELSE IF args = <<>> THEN "usage"
    ELSE IF ~int(args[1]).ok THEN "invalid_id"
    ELSE IF int(args[1]).value \notin allowed_users THEN "not_in_list"
    ELSE ""

\* deny_command up to the membership test: the text of the refusal, or ""
\* when the command goes on to revoke.
deny_refusal(u, args) ==
    IF u # OWNER_ID THEN "owner_only"
    ELSE IF args = <<>> THEN "usage"
    ELSE IF ~int(args[1]).ok THEN "invalid_id"
    ELSE IF int(args[1]).value = OWNER_ID THEN "cannot_revoke_owner"
    ELSE IF int(args[1]).value \notin allowed_users THEN "not_in_list"
    ELSE ""

\* Mutant: the removal is made on a copy that is never stored.
revoke_on_copy(allowed, target) == allowed

\* allowed_users.remove(target_user_id); bot_data['allowed_users'] = allowed_users
revoke(allowed, target) == allowed \ {target}

\* bot_data['allowed_users'] when deny_command replies.
deny_result(u, args) ==
    IF deny_refusal(u, args) # "" THEN allowed_users
    ELSE revoke(allowed_users, int(args[1]).value)

\* What deny_command does: one reply, after the set was written.
deny_run(u, args) ==
    LET R(text) == Ran("deny", "deny_command", u, args, <<"reply">>, text)
        refusal == deny_refusal(u, args)
    IN  IF refusal # "" THEN R(refusal)
        ELSE [R("revoked") EXCEPT
                 !.total = Cardinality(deny_result(u, args)) + 1]

deny_command(u, args) ==
    /\ program = "bot_with_iso"
    /\ run = NoRun
    /\ allowed_users' = deny_result(u, args)
    /\ run' = deny_run(u, args)
    /\ UNCHANGED <<fixed, CURRENT_FOLDER, sched, stats>>

\* What users_command does.
users_run(u) ==
    Ran("users", "users_command", u, <<>>, <<"reply">>,
        IF u # OWNER_ID THEN "owner_only" ELSE "user_list")

users_command(u) ==
    /\ program = "bot_with_iso"
    /\ run = NoRun
    /\ run' = users_run(u)
    /\ UNCHANGED <<fixed, CURRENT_FOLDER, sched, allowed_users, stats>>

(* ------------------------------ ISO hosting --------------------------- *)

\* What PixelDrain does with the POST of a file.
\*   response  a status and a body; `json` tells whether the body parses
\*             as a JSON object
\*   exception the request fails
PdOutcomes ==
    {[kind |-> "response", status |-> 200, json |-> TRUE],
     [kind |-> "response", status |-> 201, json |-> TRUE],
     [kind |-> "response", status |-> 200, json |-> FALSE],
     [kind |-> "response", status |-> 202, json |-> TRUE],
     [kind |-> "response", status |-> 500, json |-> FALSE],
     [kind |-> "exception", status |-> 0, json |-> FALSE]}

\* What the catalog service does with the auto-match POST.
MatchOutcomes ==
    {[kind |-> "response", status |-> 200, matched |-> TRUE, iso_id |-> "iso1"],
     [kind |-> "response", status |-> 200, matched |-> FALSE, iso_id |-> ""],
     [kind |-> "response", status |-> 500, matched |-> FALSE, iso_id |-> ""],
     [kind |-> "exception", status |-> 0, matched |-> FALSE, iso_id |-> ""]}

Failed(cause, status, body, calls) ==
    [NoUpload EXCEPT !.error = [cause |-> cause, status |-> status, body |-> body],
                     !.calls = calls]

\* Mutant: 201 is not accepted.
upload_to_pixeldrain_only_200(key, pd) ==
    IF ~key THEN Failed("No API key", 0, "", <<>>)
    ELSE IF pd.kind = "exception"
    THEN Failed("str(e)", 0, "", <<"POST pixeldrain">>)
    ELSE IF pd.status = 200
    THEN IF pd.json
         THEN [success |-> TRUE, file_id |-> "abc123",
               download_url |->
                   [base |-> "https://pixeldrain.com/api/file/", id |-> "abc123"],
               view_url |-> [base |-> "https://pixeldrain.com/u/", id |-> "abc123"],
               error |-> NoError, calls |-> <<"POST pixeldrain">>]
         ELSE Failed("str(e)", 0, "", <<"POST pixeldrain">>)
    ELSE Failed("HTTP", pd.status, "response.text()", <<"POST pixeldrain">>)

\* upload_to_pixeldrain: one POST when the key is set; 200 and 201 with a
\* JSON body are the successes; every failure is returned, never raised.
upload_to_pixeldrain(key, pd) ==
    IF ~key THEN Failed("No API key", 0, "", <<>>)
    ELSE IF pd.kind = "exception"
    THEN Failed("str(e)", 0, "", <<"POST pixeldrain">>)
    ELSE IF pd.status \in {200, 201}
    THEN IF pd.json
         THEN [success |-> TRUE, file_id |-> "abc123",
               download_url |->
                   [base |-> "https://pixeldrain.com/api/file/", id |-> "abc123"],
               view_url |-> [base |-> "https://pixeldrain.com/u/", id |-> "abc123"],
               error |-> NoError, calls |-> <<"POST pixeldrain">>]
         ELSE Failed("str(e)", 0, "", <<"POST pixeldrain">>)
    ELSE Failed("HTTP", pd.status, "response.text()", <<"POST pixeldrain">>)

\* Mutant: the catalog is asked whether or not API_KEY is set.
auto_match_iso_with_server_keyless(key, m) ==
    IF m.kind = "exception"
    THEN [NoMatch EXCEPT !.error = [cause |-> "str(e)", status |-> 0, body |-> ""],
                         !.calls = <<"POST catalog">>]
    ELSE IF m.status = 200
    THEN [success |-> m.matched, iso_id |-> m.iso_id, error |-> NoError,
          calls |-> <<"POST catalog">>]
    ELSE [NoMatch EXCEPT
             !.error = [cause |-> "HTTP", status |-> m.status,
                        body |-> "response.text()"],
             !.calls = <<"POST catalog">>]

\* Mutant: a POST that failed is sent once more.
auto_match_iso_with_server_retrying(key, m) ==
    IF ~key
    THEN [NoMatch EXCEPT !.error = [cause |-> "No API key", status |-> 0, body |-> ""]]
    ELSE IF m.kind = "exception"
    THEN [NoMatch EXCEPT !.error = [cause |-> "str(e)", status |-> 0, body |-> ""],
                         !.calls = <<"POST catalog", "POST catalog">>]
    ELSE IF m.status = 200
    THEN [success |-> m.matched, iso_id |-> m.iso_id, error |-> NoError,
          calls |-> <<"POST catalog">>]
    ELSE [NoMatch EXCEPT
             !.error = [cause |-> "HTTP", status |-> m.status,
                        body |-> "response.text()"],
             !.calls = <<"POST catalog", "POST catalog">>]

\* auto_match_iso_with_server: no request without API_KEY; otherwise one
\* POST; every failure is returned, never raised.
auto_match_iso_with_server(key, m) ==
    IF ~key
    THEN [NoMatch EXCEPT !.error = [cause |-> "No API key", status |-> 0, body |-> ""]]
    ELSE IF m.kind = "exception"
    THEN [NoMatch EXCEPT !.error = [cause |-> "str(e)", status |-> 0, body |-> ""],
                         !.calls = <<"POST catalog">>]
    ELSE IF m.status = 200
    THEN [success |-> m.matched, iso_id |-> m.iso_id, error |-> NoError,
          calls |-> <<"POST catalog">>]
    ELSE [NoMatch EXCEPT
             !.error = [cause |-> "HTTP", status |-> m.status,
                        body |-> "response.text()"],
             !.calls = <<"POST catalog">>]

\* The answers that matter once PixelDrain is asked: what it says and, when
\* it accepts the file, what the catalog says.
Hosted ==
    {[pd |-> p, match |-> m] : p \in {q \in PdOutcomes : q.kind = "response"
                                        /\ q.status \in {200, 201} /\ q.json},
                              m \in MatchOutcomes}
        \cup {[pd |-> p, match |-> CHOOSE m \in MatchOutcomes : m.kind = "exception"] :
                 p \in {q \in PdOutcomes : ~(q.kind = "response"
                                        /\ q.status \in {200, 201} /\ q.json)}}

\* Mutant: the handlers go on without the key.
no_pixeldrain_key_overlooked == FALSE

\* `not PIXELDRAIN_API_KEY`, as /upload and /fetch ask before they start.
no_pixeldrain_key == ~config.PIXELDRAIN_API_KEY

\* Mutant: a failed transfer is taken for a good one.
upload_failed_unnoticed(result) == FALSE

\* `not result.get("success")`, as /upload and /fetch ask after the transfer.
upload_failed(result) == ~result.success

\* The text after the catalog call.
MatchedText(upload, match) ==
    IF match.success /\ match.iso_id # "" THEN "successful_matched"
    ELSE IF upload.download_url # NoUrl THEN "successful_link_not_matched"
    ELSE "successful_not_matched"

\* The message /upload replies to, and what the outside does:
\*   reply  "none": no reply_to_message; "text": a message without a
\*          document; "document": a file of `size` bytes
\*   tg     Telegram's download: "ok", "get_file_error", "download_error"
\*   pd     PixelDrain's answer;  match  the catalog's answer
upload_run(u, env) ==
    LET R(trace, text, relay) ==
            [Ran("upload", "upload_command", u, <<>>, trace, text)
             EXCEPT !.relay = relay, !.env = env]
        use_pixeldrain == Exceeds(env.size, 7)
        platform == IF use_pixeldrain THEN "pixeldrain" ELSE "telegram"
        sized == [NoRelay EXCEPT !.size = env.size]
        chosen == [sized EXCEPT !.platform = platform]
        t1 == <<"reply", "edit", "mktemp", "get_file">>
        t2 == t1 \o <<"download_to_drive">>
        result ==
            IF use_pixeldrain
            THEN upload_to_pixeldrain(config.PIXELDRAIN_API_KEY, env.pd)
            ELSE [success |-> TRUE, file_id |-> "file_id",
                  download_url |-> [base |-> "tg://", id |-> "file_id"],
                  view_url |-> NoUrl, error |-> NoError, calls |-> <<>>]
        t3 == t2 \o <<"edit">> \o result.calls \o <<"unlink">>
        done == [chosen EXCEPT !.scratch = "removed", !.upload = result]
        match == auto_match_iso_with_server(config.API_KEY, env.match)
        t4 == t3 \o <<"edit">> \o match.calls \o <<"edit">>
    IN
    IF ~is_authorized(u) THEN R(<<>>, "", NoRelay)
    ELSE IF env.reply = "none" THEN R(<<"reply">>, "reply_to_a_file", NoRelay)
    ELSE IF env.reply = "text" THEN R(<<"reply">>, "not_a_file", NoRelay)
    ELSE IF use_pixeldrain /\ no_pixeldrain_key
    THEN R(<<"reply", "edit">>, "pixeldrain_key_missing", sized)
    ELSE IF env.tg = "get_file_error"
    THEN R(t1 \o <<"edit">>, "error", [chosen EXCEPT !.scratch = "exists"])
    ELSE IF env.tg = "download_error"
    THEN R(t2 \o <<"edit">>, "error", [chosen EXCEPT !.scratch = "exists"])
    ELSE IF upload_failed(result)
    THEN R(t3 \o <<"edit">>, "upload_failed", done)
    ELSE R(t4, MatchedText(result, match), [done EXCEPT !.match = match])

\* The sizes of the documents: 1 MB, and 7 GiB less one byte, exactly, and
\* plus one byte.
Sizes == {Size(0, 1048576), Size(6, GiB - 1), Size(7, 0), Size(7, 1)}

\* The environments of /upload, each named once by what the handler reads.
UploadEnvs ==
    LET E(reply, size, tg, h) ==
            [NoEnv EXCEPT !.reply = reply, !.size = size, !.tg = tg,
                          !.pd = h.pd, !.match = h.match]
        any == CHOOSE h \in Hosted : h.pd.kind = "exception"
        ok == {h \in Hosted : h.pd.status = 200 /\ h.pd.json}
    IN  {E(r, Size(0, 0), "ok", any) : r \in {"none", "text"}}
        \cup {E("document", z, tg, any) :
                 z \in Sizes, tg \in {"get_file_error", "download_error"}}
        \cup {E("document", z, "ok", h) :
                 z \in {y \in Sizes : ~Exceeds(y, 7)}, h \in ok}
        \cup {E("document", z, "ok", h) :
                 z \in {y \in Sizes : Exceeds(y, 7)}, h \in Hosted}

upload_command(u, env) ==
    /\ program = "bot_with_iso"
    /\ run = NoRun
    /\ run' = upload_run(u, env)
    /\ UNCHANGED <<fixed, CURRENT_FOLDER, sched, allowed_users, stats>>

\* A URL is the sequence of its parts between the slashes:
\* "https://example.test/file.iso" is <<"https:", "", "example.test", "file.iso">>,
\* and "http:/example.test/file.iso" is <<"http:", "example.test", "file.iso">>.
Urls ==
    {<<"https:", "", "example.test", "file.iso">>,
     <<"http:", "", "example.test", "">>,
     <<"ftp:", "", "example.test", "file.iso">>,
     <<"http:", "example.test", "file.iso">>,
     <<"example.test", "file.iso">>}

\* Mutant: only the scheme is looked at, not the two slashes.
starts_with_http_scheme_only(url) == url[1] \in {"http:", "https:"}

\* url.startswith(('http://', 'https://'))
starts_with_http(url) ==
    Len(url) >= 3 /\ url[1] \in {"http:", "https:"} /\ url[2] = ""

\* url.split('/')[-1].split('?')[0] or "unknown.iso", for a URL with no '?'
filename_of(url) ==
    IF url[Len(url)] = "" THEN "unknown.iso" ELSE url[Len(url)]

\* context.args of /fetch: nothing, or one URL.
FetchArgs == {<<>>} \cup {<<url>> : url \in Urls}

\* What the source does with the HEAD and with the GET:
\*   head  "ok": 200 with a Content-Length or none; "bad_length": 200 with
\*         a Content-Length that is no number; "not_200"; "timeout";
\*         "exception"
\*   get   "ok": 200 and the whole body; "broken": 200 and an exception
\*         while the body is read; "not_200"; "timeout"; "exception"
fetch_run(u, args, env) ==
    LET R(trace, text, relay) ==
            [Ran("fetch", "fetch_command", u, args, trace, text)
             EXCEPT !.relay = relay, !.env = env]
        t0 == <<"reply", "edit", "HEAD">>
        t1 == t0 \o <<"edit", "edit", "mktemp", "GET">>
        temp == [NoRelay EXCEPT !.platform = "pixeldrain", !.scratch = "exists"]
        cleaned == [temp EXCEPT !.scratch = "removed"]
        result == upload_to_pixeldrain(config.PIXELDRAIN_API_KEY, env.pd)
        t2 == t1 \o <<"write", "edit">> \o result.calls \o <<"unlink">>
        done == [cleaned EXCEPT !.upload = result]
        match == auto_match_iso_with_server(config.API_KEY, env.match)
        t3 == t2 \o <<"edit">> \o match.calls \o <<"edit">>
    IN
    IF ~is_authorized(u) THEN R(<<>>, "", NoRelay)
    ELSE IF args = <<>> THEN R(<<"reply">>, "usage", NoRelay)
    ELSE IF ~starts_with_http(args[1]) THEN R(<<"reply">>, "invalid_url", NoRelay)
    ELSE IF no_pixeldrain_key
    THEN R(<<"reply", "edit">>, "pixeldrain_key_missing", NoRelay)
    ELSE IF env.head = "timeout" THEN R(t0 \o <<"edit">>, "timeout", NoRelay)
    ELSE IF env.head = "exception" THEN R(t0 \o <<"edit">>, "error", NoRelay)
    ELSE IF env.head = "not_200"
    THEN R(t0 \o <<"edit">>, "url_returned_http", NoRelay)
    ELSE IF env.head = "bad_length" THEN R(t0 \o <<"edit">>, "error", NoRelay)
    ELSE IF env.get = "timeout"
    THEN R(t1 \o <<"unlink", "edit">>, "timeout", cleaned)
    ELSE IF env.get = "exception"
    THEN R(t1 \o <<"unlink", "edit">>, "error", cleaned)
    ELSE IF env.get = "not_200"
    THEN R(t1 \o <<"edit">>, "download_failed", temp)
    ELSE IF env.get = "broken"
    THEN R(t1 \o <<"write", "unlink", "edit">>, "error", cleaned)
    ELSE IF upload_failed(result)
    THEN R(t2 \o <<"edit">>, "upload_failed", done)
    ELSE R(t3, IF match.success /\ match.iso_id # "" THEN "complete_matched"
               ELSE "complete_not_matched",
           [done EXCEPT !.match = match])

\* The environments of /fetch, each named once by what the handler reads.
FetchEnvs ==
    LET E(head, get, h) ==
            [NoEnv EXCEPT !.head = head, !.get = get, !.pd = h.pd,
                          !.match = h.match]
        any == CHOOSE h \in Hosted : h.pd.kind = "exception"
    IN  {E(head, "ok", any) :
             head \in {"bad_length", "not_200", "timeout", "exception"}}
        \cup {E("ok", get, any) :
                 get \in {"broken", "not_200", "timeout", "exception"}}
        \cup {E("ok", "ok", h) : h \in Hosted}

fetch_command(u, args, env) ==
    /\ program = "bot_with_iso"
    /\ run = NoRun
    /\ run' = fetch_run(u, args, env)
    /\ UNCHANGED <<fixed, CURRENT_FOLDER, sched, allowed_users, stats>>

\* Mutant: /info answers before it asks who is calling.
info_run_answering_first(u, reply) ==
    IF reply # "document"
    THEN Ran("info", "info_command", u, <<>>, <<"reply">>, "reply_to_a_file")
    ELSE IF ~is_authorized(u)
    THEN Ran("info", "info_command", u, <<>>, <<>>, "")
    ELSE Ran("info", "info_command", u, <<>>, <<"reply">>, "file_information")

\* info_command: `reply` as for /upload.
info_run(u, reply) ==
    IF ~is_authorized(u)
    THEN Ran("info", "info_command", u, <<>>, <<>>, "")
    ELSE Ran("info", "info_command", u, <<>>, <<"reply">>,
             IF reply = "document" THEN "file_information"
             ELSE "reply_to_a_file")

info_command(u, reply) ==
    /\ program = "bot_with_iso"
    /\ run = NoRun
    /\ run' = info_run(u, reply)
    /\ UNCHANGED <<fixed, CURRENT_FOLDER, sched, allowed_users, stats>>

\* list_command shows at most 10 ISOs.
ListLimit == 10

\* What the catalog service does with the GET of the hosted ISOs: a status
\* and, with 200, `count` ISOs; or the request fails.
ListOutcomes ==
    {[kind |-> "response", status |-> 200, count |-> n] : n \in {0, 3, 11}}
        \cup {[kind |-> "response", status |-> 500, count |-> 0],
              [kind |-> "exception", status |-> 0, count |-> 0]}

\* What list_command does.
list_run(u, o) ==
    LET R(trace, text) == Ran("list", "list_command", u, <<>>, trace, text) IN
    IF ~is_authorized(u) THEN R(<<>>, "")
    ELSE IF ~config.API_KEY THEN R(<<"reply">>, "api_key_missing")
    ELSE IF o.kind = "exception" THEN R(<<"GET catalog", "reply">>, "error")
    ELSE IF o.status # 200
    THEN R(<<"GET catalog", "reply">>, "server_error")
    ELSE IF o.count = 0
    THEN R(<<"GET catalog", "reply">>, "no_hosted_isos")
    ELSE [R(<<"GET catalog", "reply">>, "hosted_isos")
          EXCEPT !.total = IF o.count > ListLimit THEN ListLimit
                           ELSE o.count]

list_command(u, o) ==
    /\ program = "bot_with_iso"
    /\ run = NoRun
    /\ run' = list_run(u, o)
    /\ UNCHANGED <<fixed, CURRENT_FOLDER, sched, allowed_users, stats>>

(* --------------------------- folder labels ---------------------------- *)
(* CURRENT_FOLDER[user_id] is a dict folder_name -> {created_at,           *)
(* file_count}.  The model keeps its keys in insertion order; file_count   *)
(* is never written after creation and created_at is only displayed.  A  *)
(* user without an entry and a user with an empty dict are not told apart  *)
(* by the code; both are the empty sequence.                               *)

\* The folder names an operator types: 1..MaxFolderNames.
MaxFolderNames == 2
FolderNames == 1..MaxFolderNames
\* context.args of a folder command: nothing, or the words of one name.
FolderArgs == {<<>>} \cup {<<n>> : n \in FolderNames}

Keys(d) == {d[i] : i \in 1..Len(d)}

RECURSIVE Without(_, _)
\* del d[k]
Without(d, k) ==
    IF d = <<>> THEN <<>>
    ELSE IF Head(d) = k THEN Without(Tail(d), k)
    ELSE <<Head(d)>> \o Without(Tail(d), k)

\* d[k] = value: a new key goes to the end, a key of the dict keeps its place.
DictSet(d, k) == IF k \in Keys(d) THEN d ELSE Append(d, k)

\* next(reversed(list(d.items())), None): the last key, 0 for None.
LastKey(d) == IF d = <<>> THEN 0 ELSE d[Len(d)]

\* All folders of all users.
FolderCount ==
    LET RECURSIVE Sum(_)
        Sum(S) == IF S = {} THEN 0
                  ELSE LET u == CHOOSE x \in S : TRUE
                       IN Len(CURRENT_FOLDER[u]) + Sum(S \ {u})
    IN Sum(Users)

\* What folder_create_command does: a reply and, after the folder was
\* written, an edit.
folder_create_run(u, args) ==
    LET R(trace, text) ==
            Ran("folder_create", "folder_create_command", u, args, trace, text)
    IN  IF ~is_authorized(u) THEN R(<<>>, "")
        ELSE IF ~config.PIXELDRAIN_API_KEY
        THEN R(<<"reply">>, "pixeldrain_key_missing")
        ELSE IF args = <<>> THEN R(<<"reply">>, "usage")
        ELSE [R(<<"reply", "edit">>, "folder_created") EXCEPT !.folder = args[1]]

\* CURRENT_FOLDER after CURRENT_FOLDER[user_id][folder_name] = {...}.
folder_created(u, args) ==
    [CURRENT_FOLDER EXCEPT ![u] = DictSet(@, args[1])]

folder_create_command(u, args, cap) ==
    /\ program = "bot_with_iso"
    /\ run = NoRun
    /\ run' = folder_create_run(u, args)
    /\ IF run'.text = "folder_created"
       THEN /\ args[1] \in Keys(CURRENT_FOLDER[u]) \/ FolderCount < cap
            /\ CURRENT_FOLDER' = folder_created(u, args)
       ELSE UNCHANGED CURRENT_FOLDER
    /\ UNCHANGED <<fixed, sched, allowed_users, stats>>

\* What folder_list_command does.
folder_list_run(u) ==
    IF ~is_authorized(u)
    THEN Ran("folder_list", "folder_list_command", u, <<>>, <<>>, "")
    ELSE [Ran("folder_list", "folder_list_command", u, <<>>,
              <<"reply">>,
              IF CURRENT_FOLDER[u] = <<>> THEN "no_folders"
              ELSE "folders")
          EXCEPT !.total = Len(CURRENT_FOLDER[u])]

folder_list_command(u) ==
    /\ program = "bot_with_iso"
    /\ run = NoRun
    /\ run' = folder_list_run(u)
    /\ UNCHANGED <<fixed, CURRENT_FOLDER, sched, allowed_users, stats>>

\* What folder_set_command does: one reply, after the folder was moved.
folder_set_run(u, args) ==
    LET R(trace, text) ==
            Ran("folder_set", "folder_set_command", u, args, trace, text)
        d == CURRENT_FOLDER[u]
    IN  IF ~is_authorized(u) THEN R(<<>>, "")
        ELSE IF args = <<>>
        THEN IF LastKey(d) # 0
             THEN [R(<<"reply">>, "current_folder") EXCEPT !.folder = LastKey(d)]
             ELSE R(<<"reply">>, "no_folder_set")
        ELSE IF args[1] \notin Keys(d) THEN R(<<"reply">>, "folder_not_found")
        ELSE [R(<<"reply">>, "folder_set") EXCEPT !.folder = args[1]]

\* CURRENT_FOLDER when folder_set_command replies: the folder it set was
\* deleted and put back, which makes it the last one.
folder_set_result(u, args) ==
    IF folder_set_run(u, args).text = "folder_set"
    THEN [CURRENT_FOLDER EXCEPT ![u] = Append(Without(@, args[1]), args[1])]
    ELSE CURRENT_FOLDER

folder_set_command(u, args) ==
    /\ program = "bot_with_iso"
    /\ run = NoRun
    /\ run' = folder_set_run(u, args)
    /\ CURRENT_FOLDER' = folder_set_result(u, args)
    /\ UNCHANGED <<fixed, sched, allowed_users, stats>>

(* ------------------------- bot.py: keep-alive ------------------------- *)

\* ping_site of bot.py: one GET, answered by the head of `endpoint`.
bot_ping_site(endpoint) ==
    LET o == Head(endpoint) IN
    [success |-> o.kind = "response",
     message |-> IF o.kind = "response" THEN "Site is online"
                 ELSE IF o.kind = "timeout" THEN "Request timed out"
                 ELSE IF o.kind = "client_error" THEN "Connection error"
                 ELSE "Unexpected error",
     status_code |-> IF o.kind = "response" THEN o.status ELSE 0,
     endpoint |-> Tail(endpoint)]

\* start_command and help_command of bot.py: no gate, one reply.
bot_start_command(cmd, u) ==
    /\ program = "bot"
    /\ run = NoRun
    /\ run' = Ran(cmd, IF cmd = "start" THEN "start_command" ELSE "help_command",
                  u, <<>>, <<"reply">>, IF cmd = "start" THEN "welcome" ELSE "help")
    /\ UNCHANGED <<fixed, CURRENT_FOLDER, sched, allowed_users, stats>>

bot_check_command(u, endpoint) ==
    /\ program = "bot"
    /\ run = NoRun
    /\ LET r == bot_ping_site(endpoint) IN
       run' = [Ran("check", "check_command", u, <<>>, <<"reply", "ping", "edit">>,
                   IF r.success THEN "online" ELSE "error")
               EXCEPT !.endpoint = endpoint]
    /\ UNCHANGED <<fixed, CURRENT_FOLDER, sched, allowed_users, stats>>

\* wake_command of bot.py: one ping; if it failed, sleep 5 s and one more.
bot_wake_command(u, endpoint) ==
    /\ program = "bot"
    /\ run = NoRun
    /\ LET r1 == bot_ping_site(endpoint)
           r2 == bot_ping_site(r1.endpoint)
           R(trace, text) ==
               [Ran("wake", "wake_command", u, <<>>, trace, text)
                EXCEPT !.endpoint = endpoint]
       IN
       run' = IF r1.success
              THEN R(<<"reply", "ping", "edit">>, "awake")
              ELSE R(<<"reply", "ping", "sleep", "ping", "edit">>,
                     IF r2.success THEN "now_awake" ELSE "failed_to_wake")
    /\ UNCHANGED <<fixed, CURRENT_FOLDER, sched, allowed_users, stats>>

bot_status_command(u, endpoint) ==
    /\ program = "bot"
    /\ run = NoRun
    /\ LET r == bot_ping_site(endpoint) IN
       run' = [Ran("status", "status_command", u, <<>>, <<"ping", "reply">>,
                   IF r.success THEN "status_online" ELSE "status_offline")
               EXCEPT !.endpoint = endpoint]
    /\ UNCHANGED <<fixed, CURRENT_FOLDER, sched, allowed_users, stats>>

\* f"{x:.1f}" of x = success / total * 100, in tenths: the nearest tenth.
\* (No total below 16 puts a rate halfway between two tenths.)
success_rate(s) ==
    IF s.total > 0 THEN (2000 * s.success + s.total) \div (2 * s.total) ELSE 0

\* stats_command of bot.py: one reply showing bot_data['stats'].
bot_stats_command(u) ==
    /\ program = "bot"
    /\ run = NoRun
    /\ run' = [Ran("stats", "stats_command", u, <<>>, <<"reply">>, "statistics")
               EXCEPT !.total = stats.total,
                      !.report = [total |-> stats.total,
                                  success |-> stats.success,
                                  failed |-> stats.failed,
                                  rate |-> success_rate(stats)]]
    /\ UNCHANGED <<fixed, CURRENT_FOLDER, sched, allowed_users, stats>>

\* auto_ping_job of bot.py: the same stats update, then, after a failed
\* ping and with OWNER_CHAT_ID set, one alert to the owner.
bot_auto_ping_job(endpoint, owner_chat_id) ==
    /\ program = "bot"
    /\ run = NoRun
    /\ stats.total < MaxPings
    /\ LET r == bot_ping_site(endpoint) IN
       /\ stats' = record(stats, r.success)
       /\ run' = [Ran("", "auto_ping_job", 0, <<>>,
                      IF ~r.success /\ owner_chat_id
                      THEN <<"ping", "send_message">> ELSE <<"ping">>, "")
                  EXCEPT !.endpoint = endpoint]
    /\ UNCHANGED <<fixed, CURRENT_FOLDER, sched, allowed_users>>

(* --------------------- ping_site on every outcome --------------------- *)

\* The HTTP status codes.
MinStatus == 100
MaxStatus == 599

AllOutcomes ==
    {[kind |-> k, status |-> 0] : k \in {"timeout", "client_error", "exception"}}
        \cup {[kind |-> "response", status |-> c] : c \in MinStatus..MaxStatus}

\* What ping_site returned, without the rest of the target's answers.
ResultOf(r) ==
    [success |-> r.success, message |-> r.message, status_code |-> r.status_code]

\* The GETs a call made: the answers it took from the target.
Gets(before, after) == [i \in 1..(Len(before) - Len(after)) |-> "GET"]

\* The target's first answer is any outcome.
InitPing ==
    /\ program \in {"bot", "bot_with_iso"}
    /\ config = [API_KEY |-> TRUE, PIXELDRAIN_API_KEY |-> TRUE]
    /\ Started
    /\ \E o \in AllOutcomes, rest \in SeqsOfLen(PingOutcomes, MaxScript - 1) :
          run = [NoRun EXCEPT !.endpoint = <<o>> \o rest]

\* One call of ping_site, of the program that was started.
call_ping_site ==
    /\ run.handler = ""
    /\ LET r == IF program = "bot" THEN bot_ping_site(run.endpoint)
                ELSE ping_site(run.endpoint)
       IN run' = [run EXCEPT !.handler = "ping_site",
                             !.trace = Gets(run.endpoint, r.endpoint),
                             !.result = ResultOf(r)]
    /\ UNCHANGED <<fixed, CURRENT_FOLDER, sched, allowed_users, stats>>

SpecPing == InitPing /\ [][call_ping_site]_vars

(* ------------------- the event loop: interleaving --------------------- *)
(* A handler runs without interruption from one await to the next.  A task *)
(* is a coroutine of bot_with_iso.py suspended at an await:                *)
(*   kind   the handler                                                    *)
(*   pc     the call it awaits: "ping" (ping_site), "reply" (reply_text),  *)
(*          "edit" (edit_text)                                             *)
(*   seen   bot_data['stats'] when the coroutine was started               *)

\* At most MaxTasks coroutines are suspended at a time.
MaxTasks == 2

NoStats == [total |-> 0, success |-> 0, failed |-> 0]

Task(kind, pc, seen) == [kind |-> kind, pc |-> pc, seen |-> seen]

Suspended == BagToSet(tasks)

Suspend(t) == tasks' = tasks (+) SetToBag({t})
Finish(t) == tasks' = tasks (-) SetToBag({t})

\* The auto-ping jobs started so far.
JobsStarted ==
    jobs_done + BagCardinality(
        [t \in {x \in Suspended : x.kind = "auto_ping_job"} |-> tasks[t]])

InitSched ==
    /\ program = "bot_with_iso"
    /\ config = [API_KEY |-> TRUE, PIXELDRAIN_API_KEY |-> TRUE]
    /\ Started
    /\ run = NoRun

\* The timer fires: auto_ping_job runs to `await ping_site()`.
job_starts ==
    /\ BagCardinality(tasks) < MaxTasks
    /\ JobsStarted < MaxPings
    /\ Suspend(Task("auto_ping_job", "ping", stats))
    /\ UNCHANGED <<fixed, CURRENT_FOLDER, run, allowed_users, stats,
                   jobs_done, committed>>

\* Mutant: the job reads the stats before it awaits the ping.
stats_read_before_await(t) == t.seen

\* stats = context.bot_data.get('stats', ...) runs after the await: the job
\* reads the stats as they are when it resumes.
stats_read(t) == stats

\* ping_site returns: the job updates the stats and ends, with no await
\* between the read and the write.
job_resumes(t, o) ==
    /\ t.kind = "auto_ping_job"
    /\ stats' = record(stats_read(t), ping_site(<<o>>).success)
    /\ jobs_done' = jobs_done + 1
    /\ Finish(t)
    /\ UNCHANGED <<fixed, CURRENT_FOLDER, run, allowed_users, committed>>

\* check_command of an authorized operator runs to its first await; for
\* another operator it returns at once and nothing changes.
check_starts(u) ==
    /\ is_authorized(u)
    /\ BagCardinality(tasks) < MaxTasks
    /\ Suspend(Task("check_command", "reply", NoStats))
    /\ UNCHANGED <<fixed, CURRENT_FOLDER, run, allowed_users, stats,
                   jobs_done, committed>>

\* check_command goes on to its next await, or ends after edit_text.
check_resumes(t) ==
    /\ t.kind = "check_command"
    /\ tasks' = IF t.pc = "edit"
                THEN tasks (-) SetToBag({t})
                ELSE (tasks (-) SetToBag({t})) (+) SetToBag(
                        {[t EXCEPT !.pc = IF t.pc = "reply" THEN "ping"
                                          ELSE "edit"]})
    /\ UNCHANGED <<fixed, CURRENT_FOLDER, run, allowed_users, stats,
                   jobs_done, committed>>

\* allow_command runs to `await reply_text`: the grant, if any, is made
\* before the handler first suspends.
allow_starts(u, args) ==
    /\ BagCardinality(tasks) < MaxTasks
    /\ IF allow_refusal(u, args) # ""
       THEN UNCHANGED <<allowed_users, committed>>
       ELSE /\ allowed_users' = grant(allowed_users, int(args[1]).value)
            /\ committed' = committed \cup {int(args[1]).value}
    /\ Suspend(Task("allow_command", "reply", NoStats))
    /\ UNCHANGED <<fixed, CURRENT_FOLDER, run, stats, jobs_done>>

\* deny_command runs to `await reply_text`.
deny_starts(u, args) ==
    /\ BagCardinality(tasks) < MaxTasks
    /\ IF deny_refusal(u, args) # ""
       THEN UNCHANGED <<allowed_users, committed>>
       ELSE /\ allowed_users' = revoke(allowed_users, int(args[1]).value)
            /\ committed' = committed \ {int(args[1]).value}
    /\ Suspend(Task("deny_command", "reply", NoStats))
    /\ UNCHANGED <<fixed, CURRENT_FOLDER, run, stats, jobs_done>>

\* reply_text returns: allow_command or deny_command ends.
reply_returns(t) ==
    /\ t.kind \in {"allow_command", "deny_command"}
    /\ Finish(t)
    /\ UNCHANGED <<fixed, CURRENT_FOLDER, run, allowed_users, stats,
                   jobs_done, committed>>

NextSched ==
    \/ job_starts
    \/ \E t \in Suspended, o \in PingOutcomes : job_resumes(t, o)
    \/ \E u \in Users : check_starts(u)
    \/ \E t \in Suspended : check_resumes(t)
    \/ \E u \in Users, a \in PermArgs : allow_starts(u, a)
    \/ \E u \in Users, a \in PermArgs : deny_starts(u, a)
    \/ \E t \in Suspended : reply_returns(t)

SpecSched == InitSched /\ [][NextSched]_vars

(* ----------------------------- dispatch ------------------------------- *)

\* The handler has returned; the application takes the next update.
process_update_done ==
    /\ run # NoRun
    /\ run' = NoRun
    /\ UNCHANGED <<fixed, CURRENT_FOLDER, sched, allowed_users, stats>>

Next ==
    \/ \E cmd \in CommandsOf("start_command"), u \in Users :
          start_command(cmd, u)
    \/ \E cmd \in CommandsOf("check_command"), u \in Users, e \in Scripts :
          check_command(cmd, u, e)
    \/ \E e \in Scripts : auto_ping_job(e)
    \/ \E u \in Users, a \in PermArgs : allow_command(u, a)
    \/ \E u \in Users, a \in PermArgs : deny_command(u, a)
    \/ \E u \in Users : users_command(u)
    \/ \E cmd \in {"start", "help"}, u \in Users : bot_start_command(cmd, u)
    \/ \E u \in Users, e \in Scripts : bot_check_command(u, e)
    \/ \E u \in Users, e \in Scripts : bot_wake_command(u, e)
    \/ \E u \in Users, e \in Scripts : bot_status_command(u, e)
    \/ \E u \in Users : bot_stats_command(u)
    \/ \E e \in Scripts, c \in BOOLEAN : bot_auto_ping_job(e, c)
    \/ process_update_done

Spec == Init /\ [][Next]_vars

(* ---------------------- the commands behind the gate ------------------ *)

\* The folders the gate specification lets exist at once, and the words it
\* gives the folder commands: nothing, or one name.
MaxGateFolders == 1
GateFolderArgs == {<<>>, <<CHOOSE n \in FolderNames : TRUE>>}

\* What /fetch is given: words that are refused before any request, with
\* one environment, and a URL that is accepted, with every environment.
GateFetches ==
    {[args |-> a, env |-> CHOOSE e \in FetchEnvs : e.head = "timeout"] :
         a \in {b \in FetchArgs : b = <<>> \/ ~starts_with_http(b[1])}}
        \cup {[args |-> a, env |-> e] :
                 a \in {b \in FetchArgs : b # <<>> /\ starts_with_http(b[1])},
                 e \in FetchEnvs}

InitGate ==
    /\ program = "bot_with_iso"
    /\ config \in Configs
    /\ Started
    /\ run = NoRun

NextGate ==
    \/ \E u \in Users, cmd \in CommandsOf("start_command") : start_command(cmd, u)
    \/ \E u \in Users, cmd \in CommandsOf("check_command"), o \in PingOutcomes :
           check_command(cmd, u, <<o>>)
    \/ \E u \in Users, env \in UploadEnvs : upload_command(u, env)
    \/ \E u \in Users, f \in GateFetches : fetch_command(u, f.args, f.env)
    \/ \E u \in Users, reply \in {"none", "text", "document"} : info_command(u, reply)
    \/ \E u \in Users, o \in ListOutcomes : list_command(u, o)
    \/ \E u \in Users, args \in GateFolderArgs :
           folder_create_command(u, args, MaxGateFolders)
    \/ \E u \in Users : folder_list_command(u)
    \/ \E u \in Users, args \in GateFolderArgs : folder_set_command(u, args)
    \/ \E u \in Users, args \in PermArgs : allow_command(u, args)
    \/ \E u \in Users, args \in PermArgs : deny_command(u, args)
    \/ process_update_done

SpecGate == InitGate /\ [][NextGate]_vars

(* ------------------------- /upload and /fetch ------------------------- *)

\* /upload and /fetch from everybody, with every document, URL and answer of
\* the outside, under every configuration and allow-set.
NextRelay ==
    \/ \E u \in Users, env \in UploadEnvs : upload_command(u, env)
    \/ \E u \in Users, args \in FetchArgs, env \in FetchEnvs :
           fetch_command(u, args, env)
    \/ \E u \in Users, args \in PermArgs : allow_command(u, args)
    \/ \E u \in Users, args \in PermArgs : deny_command(u, args)
    \/ process_update_done

SpecRelay == InitGate /\ [][NextRelay]_vars

(* --------------------------- the folder commands ---------------------- *)

\* The folders the folder specification lets exist at once.
MaxFolders == 3

\* The three folder commands from everybody, with every name, and /allow so
\* that more than one operator is served.
NextFolder ==
    \/ \E u \in Users, args \in FolderArgs :
           folder_create_command(u, args, MaxFolders)
    \/ \E u \in Users : folder_list_command(u)
    \/ \E u \in Users, args \in FolderArgs : folder_set_command(u, args)
    \/ \E u \in Users, args \in PermArgs : allow_command(u, args)
    \/ process_update_done

SpecFolder == InitGate /\ [][NextFolder]_vars

(* ----------------------- a Telegram call raises ----------------------- *)

\* update.message.reply_text and msg.edit_text: the calls to Telegram that
\* the handlers await, and that raise when Telegram refuses or is away.
TelegramCalls == {"reply", "edit"}

\* Call k of the run r is made inside a try block of its handler:
\*   upload_command         all after the first reply, but the edit that
\*                          asks for the PixelDrain key and the edit of the
\*                          except clause
\*   fetch_command          all after the first reply, but the edits of the
\*                          except clauses
\*   list_command           the replies to an answer of the catalog
\*   folder_create_command  the edit
\* No other handler has a try block around a call to Telegram.
InTry(r, k) ==
    CASE r.handler = "upload_command" ->
             /\ k >= 2
             /\ r.text # "pixeldrain_key_missing"
             /\ ~(k = Len(r.trace) /\ r.text = "error")
      [] r.handler = "fetch_command" ->
             /\ k >= 2
             /\ ~(k = Len(r.trace) /\ r.text \in {"timeout", "error"})
      [] r.handler = "list_command" ->
             r.text \in {"server_error", "no_hosted_isos", "hosted_isos"}
      [] r.handler = "folder_create_command" -> k = 2
      [] OTHER -> FALSE

\* What becomes of the run r when its call k, a call to Telegram, raises.
\* Inside a try block the except clause takes over: fetch_command's inner
\* clause unlinks the scratch file if it exists and raises again, and the
\* outer clause of each handler reports the error with one more call.
\* Outside, the exception leaves the handler and nothing is reported.
Raised(r, k) ==
    LET made == SubSeq(r.trace, 1, k - 1)
        scratch_exists ==
            "mktemp" \in Range(made) /\ "unlink" \notin Range(made)
        cleanup ==
            IF r.handler = "fetch_command" /\ scratch_exists /\ InTry(r, k)
            THEN <<"unlink">> ELSE <<>>
        relay ==
            [r.relay EXCEPT
                !.scratch = IF "mktemp" \notin Range(made) THEN "none"
                            ELSE IF scratch_exists /\ cleanup = <<>> THEN "exists"
                            ELSE "removed",
                !.upload = IF "unlink" \in Range(made) THEN @ ELSE NoUpload,
                !.match = IF k = Len(r.trace) THEN @ ELSE NoMatch]
        report == IF r.handler = "list_command" THEN "reply" ELSE "edit"
    IN  IF InTry(r, k)
        THEN [r EXCEPT !.trace = SubSeq(r.trace, 1, k) \o cleanup \o <<report>>,
                       !.text = "error", !.relay = relay, !.fault = k]
        ELSE [r EXCEPT !.trace = SubSeq(r.trace, 1, k), !.text = "",
                       !.relay = relay, !.fault = k, !.raised = TRUE]

\* A handler that writes nothing, doing what r tells, is stopped at one of
\* its calls to Telegram.
telegram_raises(r) ==
    /\ program = "bot_with_iso"
    /\ run = NoRun
    /\ \E k \in {i \in 1..Len(r.trace) : r.trace[i] \in TelegramCalls} :
           run' = Raised(r, k)
    /\ UNCHANGED <<fixed, CURRENT_FOLDER, sched, allowed_users, stats>>

\* allow_command and deny_command reply after they have written the set.
allow_reply_raises(u, args) ==
    /\ program = "bot_with_iso"
    /\ run = NoRun
    /\ allowed_users' = allow_result(u, args)
    /\ run' = Raised(allow_run(u, args), 1)
    /\ UNCHANGED <<fixed, CURRENT_FOLDER, sched, stats>>

deny_reply_raises(u, args) ==
    /\ program = "bot_with_iso"
    /\ run = NoRun
    /\ allowed_users' = deny_result(u, args)
    /\ run' = Raised(deny_run(u, args), 1)
    /\ UNCHANGED <<fixed, CURRENT_FOLDER, sched, stats>>

\* folder_create_command writes the folder between its reply and its edit.
folder_create_raises(u, args, cap, k) ==
    /\ program = "bot_with_iso"
    /\ run = NoRun
    /\ LET r == folder_create_run(u, args) IN
       /\ k \in 1..Len(r.trace)
       /\ run' = Raised(r, k)
       /\ IF r.text = "folder_created" /\ k = 2
          THEN /\ args[1] \in Keys(CURRENT_FOLDER[u]) \/ FolderCount < cap
               /\ CURRENT_FOLDER' = folder_created(u, args)
          ELSE UNCHANGED CURRENT_FOLDER
    /\ UNCHANGED <<fixed, sched, allowed_users, stats>>

\* folder_set_command replies after it has moved the folder.
folder_set_reply_raises(u, args) ==
    /\ program = "bot_with_iso"
    /\ run = NoRun
    /\ folder_set_run(u, args).trace # <<>>
    /\ run' = Raised(folder_set_run(u, args), 1)
    /\ CURRENT_FOLDER' = folder_set_result(u, args)
    /\ UNCHANGED <<fixed, sched, allowed_users, stats>>

\* Every command, with Telegram raising at one of its calls; and the
\* commands that grant and create, so that there is somebody to serve.
NextFault ==
    \/ \E u \in Users, cmd \in CommandsOf("start_command") :
           telegram_raises(start_run(cmd, u))
    \/ \E u \in Users, cmd \in CommandsOf("check_command"), o \in PingOutcomes :
           telegram_raises(check_run(cmd, u, <<o>>))
    \/ \E u \in Users, env \in UploadEnvs : telegram_raises(upload_run(u, env))
    \/ \E u \in Users, f \in GateFetches :
           telegram_raises(fetch_run(u, f.args, f.env))
    \/ \E u \in Users, reply \in {"none", "text", "document"} :
           telegram_raises(info_run(u, reply))
    \/ \E u \in Users, o \in ListOutcomes : telegram_raises(list_run(u, o))
    \/ \E u \in Users : telegram_raises(folder_list_run(u))
    \/ \E u \in Users : telegram_raises(users_run(u))
    \/ \E u \in Users, args \in PermArgs : allow_reply_raises(u, args)
    \/ \E u \in Users, args \in PermArgs : deny_reply_raises(u, args)
    \/ \E u \in Users, args \in GateFolderArgs, k \in 1..2 :
           folder_create_raises(u, args, MaxGateFolders, k)
    \/ \E u \in Users, args \in GateFolderArgs : folder_set_reply_raises(u, args)
    \/ \E u \in Users, args \in PermArgs : allow_command(u, args)
    \/ \E u \in Users, args \in GateFolderArgs :
           folder_create_command(u, args, MaxGateFolders)
    \/ process_update_done

SpecFault == InitGate /\ [][NextFault]_vars

(* ============================== claims ================================ *)

\* The integer a permission command's first argument stands for.
TargetOf(r) == int(r.args[1]).value
HasTarget(r) == r.args # <<>> /\ int(r.args[1]).ok

\* The handlers of bot_with_iso.py that start with the gate.
Served(r) == r.trace # <<>>

\* C1: authorized(operator_id) is true exactly when operator_id is the owner
\* or a member of the current allow-set, in every reachable state and for
\* every identity; a gated command is served exactly for those identities.
C1_AuthorizedIffOwnerOrAllowed ==
    /\ \A u \in Users :
          is_authorized(u) <=> (u = OWNER_ID \/ u \in allowed_users)
    /\ (program = "bot_with_iso"
            /\ run.handler \in {"start_command", "check_command"})
       => (Served(run) <=> (run.user = OWNER_ID \/ run.user \in allowed_users))

\* An operator the owner has allowed is served while another is not allowed.
C1_Witness ==
    /\ run.handler = "check_command" /\ program = "bot_with_iso"
    /\ run.user = 1 /\ Served(run)
    /\ allowed_users = {1}

\* The commands main() registers to a handler that starts with is_authorized.
GatedCommands ==
    {"start", "help", "check", "wake", "status", "stats", "upload", "fetch",
     "info", "list", "folder_create", "folder_list", "folder_set"}

\* C2: a gated command issued by somebody who is neither the owner nor in the
\* allow-set sends no reply, edits no message, makes no network call (its
\* trace of outside calls is empty, it reports nothing and it made no ping),
\* touches no scratch file, and leaves the stats, the allow-set and the
\* folder mapping as they were.
C2_UnauthorizedIsSilent ==
    [][(/\ run = NoRun
        /\ run' # NoRun
        /\ run'.cmd \in GatedCommands
        /\ run'.user # OWNER_ID
        /\ run'.user \notin allowed_users)
           => /\ run'.trace = <<>>
              /\ run'.text = ""
              /\ run'.result = NoResult
              /\ run'.relay = NoRelay
              /\ UNCHANGED <<stats, allowed_users, CURRENT_FOLDER>>]_vars

\* Somebody unauthorized has issued /folder_create with a name, while the
\* PixelDrain key is set and somebody else is allowed and has a folder.
C2_Witness ==
    /\ run.cmd = "folder_create"
    /\ run.args # <<>>
    /\ config.PIXELDRAIN_API_KEY
    /\ run.user # OWNER_ID
    /\ run.user \notin allowed_users
    /\ allowed_users # {}
    /\ run.trace = <<>>
    /\ \E u \in Users : CURRENT_FOLDER[u] # <<>>

\* The run was let through the gate.
Authorized(r) == r.user = OWNER_ID \/ r.user \in allowed_users

\* size <= 7 * 1024**3
AtMost7GiB(size) == size.gib < 7 \/ (size.gib = 7 /\ size.rem = 0)

\* The texts that report a successful /upload or /fetch.
SuccessTexts ==
    {"successful_matched", "successful_link_not_matched",
     "successful_not_matched", "complete_matched", "complete_not_matched"}

\* C11: an authorized /upload of a document goes to PixelDrain only if the
\* size exceeds 7 GiB, and with the key set every such size goes there; a
\* size of at most 7 GiB (7 GiB and 7 GiB - 1 included) uses Telegram
\* hosting, never asks for the PixelDrain key, and is reported successful
\* whenever Telegram hands the document over, with or without the key.
C11_DestinationBySizeAlone ==
    (run.cmd = "upload" /\ Authorized(run) /\ run.env.reply = "document") =>
        /\ run.relay.platform = "pixeldrain" => ~AtMost7GiB(run.env.size)
        /\ (~AtMost7GiB(run.env.size) /\ config.PIXELDRAIN_API_KEY)
               => run.relay.platform = "pixeldrain"
        /\ ~AtMost7GiB(run.env.size) => run.relay.platform # "telegram"
        /\ AtMost7GiB(run.env.size) =>
               /\ run.relay.platform = "telegram"
               /\ "POST pixeldrain" \notin Range(run.trace)
               /\ run.text # "pixeldrain_key_missing"
               /\ run.env.tg = "ok" =>
                      run.relay.upload.success /\ run.text \in SuccessTexts

\* A document of exactly 7 GiB was uploaded through Telegram hosting with no
\* PixelDrain key.
C11_Witness ==
    /\ run.cmd = "upload"
    /\ Authorized(run)
    /\ run.env.size = Size(7, 0)
    /\ ~config.PIXELDRAIN_API_KEY
    /\ run.relay.platform = "telegram"
    /\ run.text \in SuccessTexts

\* The outside calls that move data: Telegram's download, the scratch file,
\* the requests to the source, to PixelDrain and to the catalog.
DataMovement ==
    {"mktemp", "get_file", "download_to_drive", "HEAD", "GET", "write",
     "POST pixeldrain", "unlink", "POST catalog"}

\* PixelDrain is where the file of this run has to go.
PixelDrainSelected(r) ==
    \/ r.cmd = "upload" /\ r.env.reply = "document" /\ ~AtMost7GiB(r.env.size)
    \/ r.cmd = "fetch" /\ r.args # <<>> /\ starts_with_http(r.args[1])

\* C12: an authorized /upload of more than 7 GiB, or /fetch of a URL, with
\* no PixelDrain key ends with the configuration error, and what it did is
\* one reply and one edit: no download, no scratch file, no request to the
\* source, to PixelDrain or to the catalog.
C12_ConfigErrorBeforeDataMovement ==
    (Authorized(run) /\ PixelDrainSelected(run) /\ ~config.PIXELDRAIN_API_KEY) =>
        /\ run.text = "pixeldrain_key_missing"
        /\ run.trace = <<"reply", "edit">>
        /\ Range(run.trace) \cap DataMovement = {}
        /\ run.relay.scratch = "none"
        /\ run.relay.upload = NoUpload
        /\ run.relay.match = NoMatch

\* Both cases happened with no PixelDrain key: here a /fetch of a URL whose
\* source would have answered, and (C12_WitnessUpload) a document of
\* 7 GiB + 1 byte that Telegram would have handed over.
C12_Witness ==
    /\ Authorized(run)
    /\ run.cmd = "fetch"
    /\ PixelDrainSelected(run)
    /\ ~config.PIXELDRAIN_API_KEY
    /\ run.env.head = "ok" /\ run.env.get = "ok"
    /\ run.text = "pixeldrain_key_missing"

C12_WitnessUpload ==
    /\ Authorized(run)
    /\ run.cmd = "upload"
    /\ run.env.size = Size(7, 1)
    /\ run.env.tg = "ok"
    /\ ~config.PIXELDRAIN_API_KEY
    /\ run.text = "pixeldrain_key_missing"

\* C13: after a /fetch has finished, whatever its exit, the scratch file it
\* created does not exist.
C13_FetchLeavesNoScratch ==
    run.cmd = "fetch" => run.relay.scratch # "exists"

\* The exit that leaves it: the GET answers with a status other than 200.
\* On every other exit of /fetch the scratch file is gone.
C13_FetchLeavesNoScratchUnlessGetRefused ==
    (run.cmd = "fetch" /\ run.relay.scratch = "exists") =>
        /\ run.env.head = "ok"
        /\ run.env.get = "not_200"
        /\ run.text = "download_failed"
        /\ "unlink" \notin Range(run.trace)

\* C14: after an /upload has finished, whatever its exit, the scratch file
\* it created does not exist.
C14_UploadLeavesNoScratch ==
    run.cmd = "upload" => run.relay.scratch # "exists"

\* The exits that leave it: Telegram's get_file or download_to_drive raises.
\* On every other exit of /upload the scratch file is gone.
C14_UploadLeavesNoScratchUnlessTelegramRaises ==
    (run.cmd = "upload" /\ run.relay.scratch = "exists") =>
        /\ run.env.tg \in {"get_file_error", "download_error"}
        /\ run.text = "error"
        /\ "unlink" \notin Range(run.trace)

\* auto_match_iso_with_server was called in this run: it returned something.
Notified(r) == r.relay.match # NoMatch

\* The outside calls that carry the file.
Transfer ==
    {"get_file", "download_to_drive", "GET", "write", "POST pixeldrain"}

\* C15: in every /upload and /fetch the catalog is asked at most once; it is
\* asked only when the transfer returned success, and then after every call
\* that carried the file; a run that was refused, failed or raised never
\* calls auto_match_iso_with_server.
C15_NotifyOnlyAfterSuccess ==
    run.cmd \in {"upload", "fetch"} =>
        /\ Count(run.trace, "POST catalog") <= 1
        /\ Notified(run) => run.relay.upload.success
        /\ "POST catalog" \in Range(run.trace) => Notified(run)
        /\ run.text \notin SuccessTexts => ~Notified(run)
        /\ \A i, j \in 1..Len(run.trace) :
               (run.trace[i] = "POST catalog" /\ run.trace[j] \in Transfer)
                   => j < i

\* A /fetch ended in a failed PixelDrain upload while the catalog key was
\* set, and (C15_WitnessNotified) an /upload asked the catalog once.
C15_Witness ==
    /\ run.cmd = "fetch"
    /\ config.API_KEY
    /\ run.text = "upload_failed"
    /\ "POST pixeldrain" \in Range(run.trace)
    /\ ~Notified(run)

C15_WitnessNotified ==
    /\ run.cmd = "upload"
    /\ run.relay.platform = "pixeldrain"
    /\ Count(run.trace, "POST catalog") = 1
    /\ run.relay.upload.success

\* The texts that report success and say that no ISO was matched.
NotMatchedTexts ==
    {"successful_link_not_matched", "successful_not_matched",
     "complete_not_matched"}

\* C16: with no API_KEY, an /upload or /fetch whose transfer succeeded gets
\* from auto_match_iso_with_server an unmatched result ("No API key") for
\* which no request was made, and still reports success to the operator.
C16_NoCatalogKeyStillSuccess ==
    (run.cmd \in {"upload", "fetch"} /\ run.relay.upload.success
        /\ ~config.API_KEY) =>
        /\ Notified(run)
        /\ ~run.relay.match.success
        /\ run.relay.match.error.cause = "No API key"
        /\ run.relay.match.calls = <<>>
        /\ "POST catalog" \notin Range(run.trace)
        /\ run.text \in NotMatchedTexts

\* An /upload through PixelDrain succeeded with no API_KEY, and the catalog
\* would have matched the file.
C16_Witness ==
    /\ run.cmd = "upload"
    /\ run.relay.platform = "pixeldrain"
    /\ run.relay.upload.success
    /\ ~config.API_KEY
    /\ run.env.match.matched
    /\ run.text \in NotMatchedTexts

\* The catalog answers the POST with a failure.
CatalogFails(r) ==
    r.env.match.kind = "exception"
        \/ (r.env.match.kind = "response" /\ r.env.match.status # 200)

\* C17: with API_KEY set, when the catalog answers with a status other than
\* 200 or the POST raises, auto_match_iso_with_server makes one POST and no
\* more and returns an unmatched result with the cause (the status and body,
\* or the exception); the operator is told of a success, with the link to
\* the file and the note that nothing was matched.
C17_CatalogFailureDegrades ==
    (run.cmd \in {"upload", "fetch"} /\ run.relay.upload.success
        /\ config.API_KEY /\ CatalogFails(run)) =>
        /\ Count(run.trace, "POST catalog") = 1
        /\ ~run.relay.match.success
        /\ run.relay.match.error.cause =
               (IF run.env.match.kind = "exception" THEN "str(e)" ELSE "HTTP")
        /\ run.relay.match.error.status = run.env.match.status
        /\ run.relay.upload.download_url # NoUrl
        /\ run.text \in {"successful_link_not_matched", "complete_not_matched"}

\* A /fetch succeeded and the catalog answered 500.
C17_Witness ==
    /\ run.cmd = "fetch"
    /\ run.relay.upload.success
    /\ config.API_KEY
    /\ run.env.match.kind = "response"
    /\ run.env.match.status = 500
    /\ run.text = "complete_not_matched"

\* upload_to_pixeldrain sent the file in this run.
Posted(r) == "POST pixeldrain" \in Range(r.trace)

\* PixelDrain answered with 200 or 201.
Accepted(r) == r.env.pd.kind = "response" /\ r.env.pd.status \in {200, 201}

\* With any other status the result is a failure that carries the status and
\* the raw body, and the command ends as failed.
RefusedIsFailure(r) ==
    (r.env.pd.kind = "response" /\ r.env.pd.status \notin {200, 201}) =>
        /\ ~r.relay.upload.success
        /\ r.relay.upload.error =
               [cause |-> "HTTP", status |-> r.env.pd.status,
                body |-> "response.text()"]
        /\ r.text = "upload_failed"

\* Both links of a success are built from the file id.
LinksFromId(r) ==
    r.relay.upload.success =>
        /\ r.relay.upload.file_id # ""
        /\ r.relay.upload.download_url =
               [base |-> "https://pixeldrain.com/api/file/",
                id |-> r.relay.upload.file_id]
        /\ r.relay.upload.view_url =
               [base |-> "https://pixeldrain.com/u/", id |-> r.relay.upload.file_id]

\* C18 as stated: an upload to PixelDrain is a success exactly when
\* PixelDrain answers 200 or 201, and then both links are built from the
\* file id; any other status is a failure with the raw body, and the
\* command ends as failed.
C18_SuccessIffAccepted ==
    Posted(run) =>
        /\ run.relay.upload.success <=> Accepted(run)
        /\ LinksFromId(run)
        /\ RefusedIsFailure(run)

\* C18 amended: an upload to PixelDrain is a success exactly when PixelDrain
\* answers 200 or 201 with a body that parses as a JSON object, and then
\* both links are built from the file id; any other status is a failure
\* with the raw body; a 200 or 201 whose body does not parse, or a request
\* that raises, is a failure with the text of the exception; every failure
\* ends the command as failed.
C18_SuccessIffAcceptedAndParsed ==
    Posted(run) =>
        /\ run.relay.upload.success <=> (Accepted(run) /\ run.env.pd.json)
        /\ LinksFromId(run)
        /\ RefusedIsFailure(run)
        /\ ((Accepted(run) /\ ~run.env.pd.json) \/ run.env.pd.kind = "exception")
               => /\ ~run.relay.upload.success
                  /\ run.relay.upload.error.cause = "str(e)"
        /\ ~run.relay.upload.success => run.text = "upload_failed"

\* PixelDrain answered 201 to a /fetch, and the upload is a success.
C18_Witness ==
    /\ run.cmd = "fetch"
    /\ Posted(run)
    /\ run.env.pd.status = 201
    /\ run.relay.upload.success
    /\ run.text \in SuccessTexts

\* The URLs that start with neither "http://" nor "https://".
BadUrls ==
    {url \in Urls : ~(/\ url[1] \in {"http:", "https:"}
                      /\ Len(url) >= 3
                      /\ url[2] = "")}

\* What /upload or /fetch was given does not pass validation.
Invalid(r) ==
    \/ r.cmd = "fetch" /\ r.args # <<>> /\ r.args[1] \in BadUrls
    \/ r.cmd = "upload" /\ r.env.reply \in {"none", "text"}

\* C19: an authorized /fetch of a URL that starts with neither http:// nor
\* https://, and an authorized /upload that replies to nothing or to a
\* message without a document, send one reply with the validation text and
\* do nothing else: no request, no scratch file, no transfer and no call of
\* the catalog.
C19_ValidationBeforeNetwork ==
    (Authorized(run) /\ Invalid(run)) =>
        /\ run.trace = <<"reply">>
        /\ run.text =
               (IF run.cmd = "fetch" THEN "invalid_url"
                ELSE IF run.env.reply = "none" THEN "reply_to_a_file"
                ELSE "not_a_file")
        /\ Range(run.trace) \cap DataMovement = {}
        /\ run.relay = NoRelay
        /\ ~Notified(run)

\* A /fetch of "http:/example.test/file.iso" was refused while the
\* PixelDrain key was set and the source would have answered, and
\* (C19_WitnessUpload) an /upload replied to a message without a document.
C19_Witness ==
    /\ Authorized(run)
    /\ run.cmd = "fetch"
    /\ run.args = <<(<<"http:", "example.test", "file.iso">>)>>
    /\ config.PIXELDRAIN_API_KEY
    /\ run.env.head = "ok"
    /\ run.text = "invalid_url"

C19_WitnessUpload ==
    /\ Authorized(run)
    /\ run.cmd = "upload"
    /\ run.env.reply = "text"
    /\ run.text = "not_a_file"

\* The run made at least one GET of the target.
Pinged(r) == "ping" \in Range(r.trace)

\* C20: a served /stats shows the stats as they are (total, success, failed)
\* and the success rate they give (the tenth of a percent nearest to
\* success / total * 100, and 0 when nothing was counted), and makes no
\* ping; a served /check, /status or /wake pings the target.
C20_StatsReportsSnapshot ==
    /\ (run.cmd = "stats" /\ Served(run)) =>
           /\ run.text = "statistics"
           /\ run.report.total = stats.total
           /\ run.report.success = stats.success
           /\ run.report.failed = stats.failed
           /\ stats.total = 0 => run.report.rate = 0
           /\ stats.total > 0 =>
                  /\ 2 * stats.total * run.report.rate
                         <= 2000 * stats.success + stats.total
                  /\ 2000 * stats.success + stats.total
                         < 2 * stats.total * (run.report.rate + 1)
           /\ ~Pinged(run)
    /\ (run.cmd \in {"check", "status", "wake"} /\ Served(run)) => Pinged(run)

\* bot.py does what C20 says.
C20_StatsReportsSnapshotInBot == program = "bot" => C20_StatsReportsSnapshot

\* C21: when a call of a handler raises, a reply or edit included, the
\* handler catches it and tells the operator of the failure; the exception
\* never leaves the handler, whatever the command.
C21_FaultsAreCaught ==
    run.fault # 0 =>
        /\ ~run.raised
        /\ run.text = "error"
        /\ Len(run.trace) > run.fault
        /\ run.trace[Len(run.trace)] \in TelegramCalls

\* What holds instead: the exception is caught and reported only in
\* upload_command, fetch_command, list_command and folder_create_command,
\* and there not at the first reply; from every other handler it escapes.
C21_FaultsAreCaughtInFourHandlers ==
    run.fault # 0 =>
        /\ ~run.raised =>
               /\ run.handler \in {"upload_command", "fetch_command",
                                    "list_command", "folder_create_command"}
               /\ run.fault >= 2
               /\ run.text = "error"
               /\ Len(run.trace) > run.fault
        /\ run.handler \in {"start_command", "check_command", "info_command",
                             "folder_list_command", "folder_set_command",
                             "allow_command", "deny_command", "users_command"}
               => run.raised
        /\ run.fault = 1 /\ run.handler # "list_command" => run.raised

\* C22: after a /folder_create <name> that reports the folder created, <name>
\* is the operator's current folder, the one /folder_set with no argument
\* reports, whether the name is new or was created before and is not the
\* last of the operator's folders; the folders of the others are unchanged.
C22_CreatedFolderIsCurrent ==
    [][(run'.cmd = "folder_create" /\ run'.text = "folder_created") =>
           /\ folder_set_run(run.user, <<>>)'.text = "current_folder"
           /\ folder_set_run(run.user, <<>>)'.folder = run'.folder
           /\ \A v \in Users \ {run'.user} :
                  CURRENT_FOLDER'[v] = CURRENT_FOLDER[v]]_vars

\* What holds instead: a name that is new is the current folder afterwards,
\* a name the operator already has leaves the current folder what it was;
\* the folders of the others are unchanged.
C22_NewFolderIsCurrent ==
    [][(run'.cmd = "folder_create" /\ run'.text = "folder_created") =>
           /\ LastKey(CURRENT_FOLDER'[run'.user]) =
                  (IF run'.folder \in Keys(CURRENT_FOLDER[run'.user])
                   THEN LastKey(CURRENT_FOLDER[run'.user])
                   ELSE run'.folder)
           /\ \A v \in Users \ {run'.user} :
                  CURRENT_FOLDER'[v] = CURRENT_FOLDER[v]]_vars

\* The identities for which is_authorized answers yes.
AuthorizedIdentities ==
    {x \in Users \cup allowed_users : is_authorized(x)}

\* C23: the "Total authorized users" number a granting /allow or a revoking
\* /deny reports is the number of distinct identities for which
\* is_authorized is true afterwards, after any sequence of /allow and /deny,
\* /allow <owner> included.
C23_TotalCountsAuthorized ==
    (run.cmd \in {"allow", "deny"} /\ run.text \in {"granted", "revoked"}) =>
        run.total = Cardinality(AuthorizedIdentities)

\* What holds instead: the number is right as long as the owner was never
\* put into the allow-set, and one too many from then on.
C23_TotalCountsAuthorizedUnlessOwnerAllowed ==
    (run.cmd \in {"allow", "deny"} /\ run.text \in {"granted", "revoked"}) =>
        run.total = Cardinality(AuthorizedIdentities)
                       + (IF OWNER_ID \in allowed_users THEN 1 ELSE 0)

\* C3: for a non-owner x, after the owner's allow(x) authorized(x) is true,
\* and after the owner's deny(x) authorized(x) is false, from any state.
C3_AllowThenDeny ==
    (run.handler \in {"allow_command", "deny_command"}
        /\ run.user = OWNER_ID /\ HasTarget(run) /\ TargetOf(run) # OWNER_ID)
    => (is_authorized(TargetOf(run)) <=> run.cmd = "allow")

\* The owner has revoked an identity that had been allowed.
C3_Witness ==
    /\ run.cmd = "deny" /\ run.text = "revoked" /\ TargetOf(run) = 1
    /\ ~is_authorized(1)

\* C4: deny(owner) fails with a visible refusal and leaves the allow-set
\* unchanged, and the owner is authorized in every reachable state.
C4_OwnerNeverLockedOut ==
    [][ /\ is_authorized(OWNER_ID) /\ is_authorized(OWNER_ID)'
        /\ (run'.cmd = "deny" /\ HasTarget(run') /\ TargetOf(run') = OWNER_ID)
           => /\ allowed_users' = allowed_users
              /\ run'.trace = <<"reply">>
              /\ run'.text \in {"owner_only", "cannot_revoke_owner"} ]_vars

\* The owner tries to revoke the owner while the owner is in the allow-set.
C4_Witness ==
    /\ run.cmd = "deny" /\ run.user = OWNER_ID /\ HasTarget(run)
    /\ TargetOf(run) = OWNER_ID /\ run.text = "cannot_revoke_owner"
    /\ OWNER_ID \in allowed_users

\* C5: allow, deny or users from any identity other than the owner, also one
\* in the allow-set, gets a visible permission refusal and leaves the
\* allow-set as it was.
C5_PermissionCommandsOwnerOnly ==
    [][ (run'.handler \in {"allow_command", "deny_command", "users_command"}
            /\ run'.user # OWNER_ID)
        => /\ allowed_users' = allowed_users
           /\ run'.trace = <<"reply">>
           /\ run'.text = "owner_only" ]_vars

\* An allowed operator tries to allow an identity that is not yet allowed.
C5_Witness ==
    /\ run.cmd = "allow" /\ run.user = 1 /\ 1 \in allowed_users
    /\ HasTarget(run) /\ TargetOf(run) = 2 /\ 2 \notin allowed_users
    /\ run.text = "owner_only"

\* The outcome a ping command reported to the operator is a success.
ReportedOnline(r) == r.text \in {"online", "awake", "now_awake"}

\* C6: wake calls the pinger once; if that call is not ok it waits, calls
\* once more and reports the second outcome; never more than two calls.
C6_WakeRetriesOnce ==
    (run.cmd = "wake" /\ Served(run))
    => LET first == run.endpoint[1]
           second == run.endpoint[2]
           calls == Count(run.trace, "ping")
       IN IF first.kind = "response"
          THEN calls = 1 /\ ReportedOnline(run)
          ELSE /\ calls = 2
               /\ Count(run.trace, "sleep") = 1
               /\ ReportedOnline(run) <=> second.kind = "response"

\* wake_command of bot.py alone does what C6 says.
C6_WakeRetriesOnceInBot == program = "bot" => C6_WakeRetriesOnce

\* C7: ping issues a single GET with no retry; any HTTP response, whatever
\* its status code in 100..599, gives ok = true with that status; a timeout
\* or a transport failure gives ok = false with status 0.
C7_PingClassifies ==
    run.handler = "ping_site"
    => LET o == run.endpoint[1] IN
       /\ run.trace = <<"GET">>
       /\ o.kind = "response"
          => run.result.success /\ run.result.status_code = o.status
       /\ o.kind # "response"
          => ~run.result.success /\ run.result.status_code = 0

\* The target answered 500 to a ping of bot_with_iso.py.
C7_Witness ==
    /\ run.handler = "ping_site" /\ program = "bot_with_iso"
    /\ run.endpoint[1] = [kind |-> "response", status |-> 500]
    /\ run.result.success /\ run.result.status_code = 500

\* C8: each run of the auto-ping job adds 1 to total and 1 to exactly one of
\* success (ping ok) and failed (ping not ok); total = success + failed in
\* every reachable state, and no counter ever decreases.
C8_StatsCountEveryRun ==
    [][ /\ stats.total = stats.success + stats.failed
        /\ stats'.total = stats'.success + stats'.failed
        /\ stats'.total >= stats.total
        /\ stats'.success >= stats.success
        /\ stats'.failed >= stats.failed
        /\ run'.handler = "auto_ping_job"
           => LET ok == run'.endpoint[1].kind = "response" IN
              /\ stats'.total = stats.total + 1
              /\ stats'.success = stats.success + (IF ok THEN 1 ELSE 0)
              /\ stats'.failed = stats.failed + (IF ok THEN 0 ELSE 1) ]_vars

\* The job has run twice, once with each outcome.
C8_Witness ==
    /\ run.handler = "auto_ping_job"
    /\ stats = [total |-> 2, success |-> 1, failed |-> 1]

\* C9: check, status, wake and stats leave total, success and failed
\* unchanged, whatever the outcome of the pings they perform.
C9_CommandsLeaveStats ==
    [][ run'.cmd \in {"check", "status", "wake", "stats"}
        => stats' = stats ]_vars

\* A served check whose ping failed, after the job has counted a ping.
C9_Witness ==
    /\ run.cmd = "check" /\ Served(run) /\ run.text = "error"
    /\ program = "bot_with_iso" /\ stats.total > 0

\* C10: handlers interleave only at their awaits and none awaits between
\* its read and its write of the stats or of the allow-set, so no update is
\* lost: after N auto-ping jobs have completed, stats.total = N, and the
\* allow-set is the result of the owner's grants and revocations applied in
\* the order in which they were committed.
C10_NoLostUpdate ==
    /\ stats.total = jobs_done
    /\ stats.total = stats.success + stats.failed
    /\ allowed_users = committed

\* A job has completed while a job that started before it finished, and a
\* deny_command that revoked an operator, are still suspended.
C10_Witness ==
    /\ jobs_done = 1
    /\ \E t \in Suspended : t.kind = "auto_ping_job" /\ t.seen.total = 0
    /\ \E t \in Suspended : t.kind = "deny_command"
    /\ allowed_users = {2}

====
